---- MODULE Spec2Model ----
(***************************************************************************)
(* A model of the dyfn backend (src/main.py): the route handlers           *)
(* list_products, create_product, create_order, seed_products and          *)
(* test_database over a document store holding a "product" and an "order" *)
(* collection.                                                             *)
(*                                                                         *)
(* Text that the code inspects character by character (title, description, *)
(* the search parameter, identifiers rendered as text) is a sequence of    *)
(* one-character strings.  Text that is only compared for equality         *)
(* (category, image, status strings) is a TLA+ string.  An Optional[...]   *)
(* parameter is <<>> for None and <<v>> for the value v.                   *)
(***************************************************************************)
EXTENDS Integers, Sequences, FiniteSets, TLC

VARIABLES
    db,        \* TRUE iff the module-level handle `db` is not None
    extra,     \* number of further collections the database holds
    base,      \* number of product records the store held at start-up
    product,   \* the "product" collection, in store-native order
    order,     \* the "order" collection, in store-native order
    nextId,    \* the next identifier the store assigns
    issued,    \* history: text of every identifier the store has assigned
    seeded,    \* history: _id of every record inserted by seed_products
    last,      \* the response of the request that completed last
    req        \* the seed_products requests in flight (step by step)

vars == <<db, extra, base, product, order, nextId, issued, seeded, last, req>>

(***************************************************************************)
(* Bounds of the model.                                                    *)
(***************************************************************************)
MaxCreated == 2      \* create_product / create_order inserts per behaviour
MaxRequests == 2     \* concurrently handled seed_products requests

(***************************************************************************)
(* Program constants.                                                      *)
(***************************************************************************)
DefaultLimit == 100  \* list_products(limit: int = 100)
CollectionsCap == 10 \* collections[:10]

Min(a, b) == IF a < b THEN a ELSE b

None == <<>>
Some(v) == <<v>>

(***************************************************************************)
(* Characters and case folding, as the "i" option of $regex folds them.    *)
(***************************************************************************)
LowerOf ==
    [A |-> "a", B |-> "b", C |-> "c", D |-> "d", E |-> "e", F |-> "f", G |-> "g",
     H |-> "h", I |-> "i", J |-> "j", K |-> "k", L |-> "l", M |-> "m", N |-> "n",
     O |-> "o", P |-> "p", Q |-> "q", R |-> "r", S |-> "s", T |-> "t", U |-> "u",
     V |-> "v", W |-> "w", X |-> "x", Y |-> "y", Z |-> "z"]

Lower(c) == IF c \in DOMAIN LowerOf THEN LowerOf[c] ELSE c

(***************************************************************************)
(* {"$regex": search, "$options": "i"}: an unanchored, case-insensitive    *)
(* regular-expression search.  The patterns of this model are made of      *)
(* letters, blanks and ".", so a pattern is a sequence of one-character    *)
(* atoms: "." matches any character, every other character matches itself *)
(* up to case.                                                             *)
(***************************************************************************)
AtomMatches(p, c) == p = "." \/ Lower(p) = Lower(c)

RegexSearch(pat, text) ==
    \E s \in 0..(Len(text) - Len(pat)) :
        \A j \in 1..Len(pat) : AtomMatches(pat[j], text[s + j])

(***************************************************************************)
(* str(ObjectId): the identifier rendered as 24 hexadecimal digits.  The   *)
(* store's identifiers are modelled by the naturals it assigns in turn.    *)
(***************************************************************************)
HexDigits == <<"0","1","2","3","4","5","6","7","8","9","a","b","c","d","e","f">>

RECURSIVE Hex(_, _)
Hex(n, w) == IF w = 0 THEN <<>> ELSE Append(Hex(n \div 16, w - 1), HexDigits[(n % 16) + 1])

ObjectIdStr(n) == Hex(n, 24)

(***************************************************************************)
(* The four fixed demonstration records of seed_products.  A price is in   *)
(* hundredths.                                                             *)
(***************************************************************************)
SeedSizes == <<"S", "M", "L", "XL">>

docs == <<
    [title |-> <<"C","l","a","s","s","i","c"," ","D","Y","F","N"," ","T","e","e">>,
     description |-> <<"P","r","e","m","i","u","m"," ","c","o","t","t","o","n"," ",
                       "t","-","s","h","i","r","t"," ","w","i","t","h"," ",
                       "D","Y","F","N"," ","l","o","g","o",".">>,
     price |-> 2499, category |-> "tshirt",
     image |-> "https://images.unsplash.com/photo-1512436991641-6745cdb1723f?q=80&w=1200&auto=format&fit=crop",
     in_stock |-> TRUE, sizes |-> SeedSizes],
    [title |-> <<"O","v","e","r","s","i","z","e","d"," ","D","Y","F","N"," ","T","e","e">>,
     description |-> <<"R","e","l","a","x","e","d"," ","f","i","t",","," ",
                       "u","l","t","r","a","-","s","o","f","t"," ","f","a","b","r","i","c",".">>,
     price |-> 2999, category |-> "tshirt",
     image |-> "https://images.unsplash.com/photo-1520975916090-3105956dac38?q=80&w=1200&auto=format&fit=crop",
     in_stock |-> TRUE, sizes |-> SeedSizes],
    [title |-> <<"D","Y","F","N"," ","E","s","s","e","n","t","i","a","l"," ","H","o","o","d","i","e">>,
     description |-> <<"M","i","d","w","e","i","g","h","t"," ","f","l","e","e","c","e"," ",
                       "h","o","o","d","i","e"," ","f","o","r"," ",
                       "e","v","e","r","y","d","a","y"," ","w","e","a","r",".">>,
     price |-> 4999, category |-> "hoodie",
     image |-> "https://images.unsplash.com/photo-1544441893-675973e31985?q=80&w=1200&auto=format&fit=crop",
     in_stock |-> TRUE, sizes |-> SeedSizes],
    [title |-> <<"D","Y","F","N"," ","H","e","a","v","y","w","e","i","g","h","t"," ","H","o","o","d","i","e">>,
     description |-> <<"T","h","i","c","k",","," ","c","o","z","y",","," ",
                       "p","e","r","f","e","c","t"," ","f","o","r"," ",
                       "c","o","l","d"," ","d","a","y","s",".">>,
     price |-> 5999, category |-> "hoodie",
     image |-> "https://images.unsplash.com/photo-1548883354-7622d03aca9b?q=80&w=1200&auto=format&fit=crop",
     in_stock |-> TRUE, sizes |-> SeedSizes] >>

(***************************************************************************)
(* Inputs of the requests.                                                 *)
(***************************************************************************)
PlainTee == [title |-> <<"T","e","e">>, description |-> <<"a","b">>,
             price |-> 1000, category |-> "tshirt", image |-> "tee.png",
             in_stock |-> TRUE, sizes |-> <<"M">>]

RedCap == [title |-> <<"C","a","p">>, description |-> <<"R","e","d",".">>,
           price |-> 500, category |-> "Tshirt", image |-> "cap.png",
           in_stock |-> FALSE, sizes |-> <<>>]

Payloads == {PlainTee, RedCap}

Orders == {[product_id |-> ObjectIdStr(1), quantity |-> 1]}

Categories == {None, Some(""), Some("tshirt"), Some("Tshirt")}

Searches == {None, Some(<<>>), Some(<<"T","E","E">>), Some(<<"t",".","e">>)}

Limits == {0, 2, DefaultLimit}

(***************************************************************************)
(* Responses.  Every response is a record of the same shape; a handler     *)
(* fills in the fields it returns.  status is the HTTP status; failed      *)
(* says that a store operation of the request raised; storeOps counts the  *)
(* store operations the request attempted; preCount is the size of the     *)
(* product collection when the request arrived.                            *)
(***************************************************************************)
Blank(op) ==
    [op |-> op, status |-> 200, detail |-> "", failed |-> FALSE, storeOps |-> 0,
     category |-> None, search |-> None, limit |-> 0, body |-> <<>>,
     id |-> <<>>, payload |-> <<>>, seeded |-> None, count |-> 0,
     message |-> "", orderStatus |-> "", database |-> "", collections |-> <<>>,
     preCount |-> Len(product)]

HTTPException(op, detail) == [Blank(op) EXCEPT !.status = 500, !.detail = detail]

(***************************************************************************)
(* The store (pymongo): insert_one appends the record under the next       *)
(* identifier, count_documents({}) counts the collection.                  *)
(***************************************************************************)
WithId(d, id) == [f \in DOMAIN d \cup {"_id"} |-> IF f = "_id" THEN id ELSE d[f]]

insert_one(coll, d, id) == Append(coll, WithId(d, id))

count_documents(coll) == Len(coll)

CollectionNames ==
    (IF Len(product) > 0 THEN <<"product">> ELSE <<>>)
    \o (IF Len(order) > 0 THEN <<"order">> ELSE <<>>)
    \o [i \in 1..extra |-> "other"]

(***************************************************************************)
(* The store adapter (module database).                                    *)
(***************************************************************************)
create_document(coll, data, fail) ==
    IF ~db \/ fail
    THEN [ok |-> FALSE, id |-> <<>>, coll |-> coll, storeOps |-> IF db THEN 1 ELSE 0]
    ELSE [ok |-> TRUE, id |-> ObjectIdStr(nextId),
          coll |-> insert_one(coll, data, nextId), storeOps |-> 1]

Matches(query, d) ==
    /\ query.category # None => d.category = query.category[1]
    /\ query.regex # None =>
          \/ RegexSearch(query.regex[1], d.title)
          \/ RegexSearch(query.regex[1], d.description)

get_documents(coll, query, limit) ==
    LET found == SelectSeq(coll, LAMBDA d : Matches(query, d))
    IN  SubSeq(found, 1, Min(limit, Len(found)))

(***************************************************************************)
(* list_products                                                           *)
(***************************************************************************)
HandleAbsent == ~db

BuildQuery(category, search) ==
    [category |-> IF category # None /\ category[1] # "" THEN category ELSE None,
     regex    |-> IF search # None /\ search[1] # <<>> THEN search ELSE None]

Render_LosesId(p) ==
    [f \in (DOMAIN p \ {"_id"}) \cup {"id"} |-> IF f = "id" THEN <<>> ELSE p[f]]

Render(p) ==
    [f \in (DOMAIN p \ {"_id"}) \cup {"id"} |->
        IF f = "id" THEN ObjectIdStr(p["_id"]) ELSE p[f]]

list_products_FixedLimit(category, search, limit, fail) ==
    LET asked == [Blank("list_products") EXCEPT
                    !.category = category, !.search = search, !.limit = limit]
    IN  IF HandleAbsent
        THEN [asked EXCEPT !.status = 500, !.detail = "Database not configured"]
        ELSE IF fail
        THEN [asked EXCEPT !.status = 500, !.detail = "Internal Server Error",
                           !.failed = TRUE, !.storeOps = 1]
        ELSE LET products == get_documents(product, BuildQuery(category, search),
                                           DefaultLimit)
             IN  [asked EXCEPT !.storeOps = 1,
                      !.body = [i \in 1..Len(products) |-> Render(products[i])]]

list_products(category, search, limit, fail) ==
    LET asked == [Blank("list_products") EXCEPT
                    !.category = category, !.search = search, !.limit = limit]
    IN  IF HandleAbsent
        THEN [asked EXCEPT !.status = 500, !.detail = "Database not configured"]
        ELSE IF fail
        THEN [asked EXCEPT !.status = 500, !.detail = "Internal Server Error",
                           !.failed = TRUE, !.storeOps = 1]
        ELSE LET products == get_documents(product, BuildQuery(category, search), limit)
             IN  [asked EXCEPT !.storeOps = 1,
                      !.body = [i \in 1..Len(products) |-> Render(products[i])]]

(***************************************************************************)
(* create_product, create_order                                            *)
(***************************************************************************)
create_product(p, fail) ==
    LET made == create_document(product, p, fail)
        told == [Blank("create_product") EXCEPT
                    !.payload = Some(p), !.storeOps = made.storeOps]
    IN  IF made.ok
        THEN [resp |-> [told EXCEPT !.id = made.id], coll |-> made.coll]
        ELSE [resp |-> [told EXCEPT !.status = 500, !.detail = "store error",
                                    !.failed = fail /\ db],
              coll |-> product]

create_order(o, fail) ==
    LET made == create_document(order, o, fail)
        told == [Blank("create_order") EXCEPT !.storeOps = made.storeOps]
    IN  IF made.ok
        THEN [resp |-> [told EXCEPT !.id = made.id, !.orderStatus = "received"],
              coll |-> made.coll]
        ELSE [resp |-> [told EXCEPT !.status = 500, !.detail = "store error",
                                    !.failed = fail /\ db],
              coll |-> order]

(***************************************************************************)
(* seed_products.  failAt names the store operation of the request that    *)
(* raises: 0 for none, 1 for count_documents, 1 + i for the insert_one of  *)
(* docs[i].                                                                *)
(***************************************************************************)
ProductsExist_Never(count) == FALSE

ProductsExist_Several(count) == count > 1

ProductsExist(count) == count > 0

RECURSIVE SeedLoop_Continues(_, _, _, _)
SeedLoop_Continues(coll, i, id, failIns) ==
    IF i > Len(docs) THEN [coll |-> coll, failed |-> FALSE, ops |-> 0]
    ELSE LET rest == IF failIns = i
                     THEN SeedLoop_Continues(coll, i + 1, id, failIns)
                     ELSE SeedLoop_Continues(insert_one(coll, docs[i], id),
                                             i + 1, id + 1, failIns)
         IN  [rest EXCEPT !.ops = @ + 1, !.failed = @ \/ failIns = i]

RECURSIVE SeedLoop(_, _, _, _)
SeedLoop(coll, i, id, failIns) ==
    IF i > Len(docs) THEN [coll |-> coll, failed |-> FALSE, ops |-> 0]
    ELSE IF failIns = i THEN [coll |-> coll, failed |-> TRUE, ops |-> 1]
    ELSE LET rest == SeedLoop(insert_one(coll, docs[i], id), i + 1, id + 1, failIns)
         IN  [rest EXCEPT !.ops = @ + 1]

SeedSkipped(told) ==
    [told EXCEPT !.seeded = Some(FALSE), !.message = "Products already exist"]

SeedDone(told) ==
    [told EXCEPT !.seeded = Some(TRUE), !.count = Len(docs)]

SeedError_Swallowed(told) ==
    [told EXCEPT !.seeded = Some(FALSE), !.failed = TRUE]

SeedError(told) ==
    [told EXCEPT !.status = 500, !.detail = "store error", !.failed = TRUE]

seed_products(failAt) ==
    LET told == Blank("seed_products")
    IN  IF HandleAbsent
        THEN [resp |-> HTTPException("seed_products", "Database not configured"),
              coll |-> product]
        ELSE IF failAt = 1
        THEN [resp |-> SeedError([told EXCEPT !.storeOps = 1]), coll |-> product]
        ELSE IF ProductsExist(count_documents(product))
        THEN [resp |-> SeedSkipped([told EXCEPT !.storeOps = 1]), coll |-> product]
        ELSE LET run == SeedLoop(product, 1, nextId, failAt - 1)
                 ran == [told EXCEPT !.storeOps = 1 + run.ops]
             IN  [resp |-> IF run.failed THEN SeedError(ran) ELSE SeedDone(ran),
                  coll |-> run.coll]

(***************************************************************************)
(* test_database                                                           *)
(***************************************************************************)
Slice_Whole(s, n) == s

Slice(s, n) == SubSeq(s, 1, Min(n, Len(s)))

test_database(fail) ==
    LET told == Blank("test_database")
    IN  IF db
        THEN IF fail
             THEN [told EXCEPT !.database = "Connected but Error",
                               !.failed = TRUE, !.storeOps = 1]
             ELSE [told EXCEPT !.database = "Connected & Working",
                               !.collections = Slice(CollectionNames, CollectionsCap),
                               !.storeOps = 1]
        ELSE [told EXCEPT !.database = "Available but not initialized"]

(***************************************************************************)
(* State machine.                                                          *)
(***************************************************************************)
Requests == 1..MaxRequests

Idle == [pc |-> "idle", i |-> 0, inserted |-> 0, resp |-> Blank("none")]

Preloaded == {0, DefaultLimit - 1}

Crowded == {0, CollectionsCap + 1}

Start(sizes, others) ==
    /\ db \in BOOLEAN
    /\ base \in (IF db THEN sizes ELSE {0})
    /\ extra \in (IF db THEN others ELSE {0})
    /\ product = [i \in 1..base |-> WithId(PlainTee, i)]
    /\ order = <<>>
    /\ nextId = base + 1
    /\ issued = [i \in 1..base |-> ObjectIdStr(i)]
    /\ seeded = {}
    /\ last = Blank("none")
    /\ req = [r \in Requests |-> Idle]

NewIds(before, after) ==
    [i \in 1..(Len(after) - Len(before)) |-> ObjectIdStr(after[Len(before) + i]["_id"])]

StoreProducts(coll) ==
    /\ product' = coll
    /\ nextId' = nextId + (Len(coll) - Len(product))
    /\ issued' = issued \o NewIds(product, coll)

Created == Len(issued) - base - Cardinality(seeded)

ListWith(categories, searches, limits) ==
    \E category \in categories, search \in searches, limit \in limits, fail \in BOOLEAN :
        /\ last' = list_products(category, search, limit, fail)
        /\ UNCHANGED <<db, extra, base, product, order, nextId, issued, seeded, req>>

ListProducts == ListWith(Categories, Searches, Limits)

ListDefault == ListWith({None}, {None}, {DefaultLimit})

CreateProduct ==
    \E p \in Payloads, fail \in BOOLEAN :
        LET out == create_product(p, fail)
        IN  /\ Created < MaxCreated
            /\ last' = out.resp
            /\ StoreProducts(out.coll)
            /\ UNCHANGED <<db, extra, base, order, seeded, req>>

CreateOrder ==
    \E o \in Orders, fail \in BOOLEAN :
        LET out == create_order(o, fail)
        IN  /\ Created < MaxCreated
            /\ last' = out.resp
            /\ order' = out.coll
            /\ nextId' = nextId + (Len(out.coll) - Len(order))
            /\ issued' = issued \o NewIds(order, out.coll)
            /\ UNCHANGED <<db, extra, base, product, seeded, req>>

FailPoints == 0..(1 + Len(docs))

SeedProducts ==
    \E failAt \in FailPoints :
        LET out == seed_products(failAt)
        IN  /\ last' = out.resp
            /\ StoreProducts(out.coll)
            /\ seeded' = seeded \cup
                  {out.coll[k]["_id"] : k \in (Len(product) + 1)..Len(out.coll)}
            /\ UNCHANGED <<db, extra, base, order, req>>

TestDatabase ==
    \E fail \in BOOLEAN :
        /\ last' = test_database(fail)
        /\ UNCHANGED <<db, extra, base, product, order, nextId, issued, seeded, req>>

Next ==
    \/ ListProducts
    \/ CreateProduct
    \/ CreateOrder
    \/ SeedProducts
    \/ TestDatabase

Init == Start({0}, {0})

Spec == Init /\ [][Next]_vars

(***************************************************************************)
(* The same handlers on a database that may already hold DefaultLimit - 1  *)
(* product records and more than CollectionsCap collections, list_products *)
(* being called with its default parameters.                               *)
(***************************************************************************)
LargeInit == Start(Preloaded, Crowded)

LargeNext ==
    \/ ListDefault
    \/ CreateProduct
    \/ CreateOrder
    \/ SeedProducts
    \/ TestDatabase

LargeSpec == LargeInit /\ [][LargeNext]_vars

(***************************************************************************)
(* seed_products handled concurrently: the handlers take no lock, so the   *)
(* store operations of several requests interleave.  SeedBegin is a        *)
(* request up to and including its count_documents call; SeedInsert is one *)
(* pass of the loop over docs, the return included after the last one.     *)
(* req[r].i is the index of the next record of docs to insert.             *)
(***************************************************************************)
Finish(r, resp) ==
    /\ req' = [req EXCEPT ![r].pc = "done", ![r].resp = resp]
    /\ last' = resp

SeedBegin(r) ==
    /\ req[r].pc = "idle"
    /\ \E fail \in BOOLEAN :
         LET told == [Blank("seed_products") EXCEPT !.storeOps = 1]
         IN  IF HandleAbsent
             THEN Finish(r, HTTPException("seed_products", "Database not configured"))
             ELSE IF fail
             THEN Finish(r, SeedError(told))
             ELSE IF ProductsExist(count_documents(product))
             THEN Finish(r, SeedSkipped(told))
             ELSE /\ req' = [req EXCEPT ![r].pc = "insert", ![r].i = 1, ![r].resp = told]
                  /\ UNCHANGED last
    /\ UNCHANGED <<db, extra, base, product, order, nextId, issued, seeded>>

SeedInsert(r) ==
    /\ req[r].pc = "insert"
    /\ \E fail \in BOOLEAN :
         LET told == [req[r].resp EXCEPT !.storeOps = @ + 1]
         IN  IF fail
             THEN /\ Finish(r, SeedError(told))
                  /\ UNCHANGED <<product, nextId, issued, seeded>>
             ELSE /\ StoreProducts(insert_one(product, docs[req[r].i], nextId))
                  /\ seeded' = seeded \cup {nextId}
                  /\ IF req[r].i = Len(docs)
                     THEN /\ req' = [req EXCEPT ![r].pc = "done", ![r].inserted = @ + 1,
                                                ![r].resp = SeedDone(told)]
                          /\ last' = SeedDone(told)
                     ELSE /\ req' = [req EXCEPT ![r].i = @ + 1, ![r].inserted = @ + 1,
                                                ![r].resp = told]
                          /\ UNCHANGED last
    /\ UNCHANGED <<db, extra, base, order>>

ConcNext ==
    \/ \E r \in Requests : SeedBegin(r)
    \/ \E r \in Requests : SeedInsert(r)

ConcSpec == Init /\ [][ConcNext]_vars

(***************************************************************************)
(* Notions the properties use.  ContainsCI is the plain reading of "text   *)
(* search": s occurs in text, up to case.                                  *)
(***************************************************************************)
ContainsCI(s, text) ==
    \E k \in 0..(Len(text) - Len(s)) :
        \A j \in 1..Len(s) : Lower(s[j]) = Lower(text[k + j])

IsSeed(r) == r.op = "seed_products"

IsList(r) == r.op = "list_products"

IsDefaultList(r) ==
    IsList(r) /\ r.category = None /\ r.search = None /\ r.limit = DefaultLimit

FieldsMatch(rec, p) == \A f \in DOMAIN p : rec[f] = p[f]

Strip(d) == [f \in DOMAIN d \ {"_id"} |-> d[f]]

SeededRecords ==
    LET kept == SelectSeq(product, LAMBDA d : d["_id"] \in seeded)
    IN  [k \in 1..Len(kept) |-> Strip(kept[k])]

MatchCount(r) ==
    Cardinality({k \in DOMAIN product :
                    Matches(BuildQuery(r.category, r.search), product[k])})

SaidSeeded == {r \in Requests : req[r].pc = "done" /\ req[r].resp.seeded = Some(TRUE)}

(***************************************************************************)
(* C1: on a store with no product records and with no store failure, two   *)
(* seed_products calls one after the other: the first inserts exactly 4    *)
(* records and returns seeded=true with count 4, the second inserts        *)
(* nothing and returns seeded=false, and 4 records remain.                 *)
(***************************************************************************)
C1_SeedTwice ==
    [][ ( /\ db
          /\ IsSeed(last) /\ last.preCount = 0 /\ ~last.failed
          /\ IsSeed(last') /\ ~last'.failed )
        => ( /\ last.seeded = Some(TRUE) /\ last.count = 4
             /\ Len(product) = 4
             /\ last'.seeded = Some(FALSE)
             /\ product' = product
             /\ Len(product') = 4 ) ]_vars

C1_Witness ==
    /\ IsSeed(last) /\ last.seeded = Some(FALSE) /\ last.preCount = 4
    /\ Cardinality(seeded) = 4 /\ Len(product) = 4

(***************************************************************************)
(* C2: when the product collection holds at least one record, a            *)
(* seed_products call that completes without store failure returns         *)
(* seeded=false and leaves the product collection unchanged.               *)
(***************************************************************************)
C2_SeedGuard ==
    [][ (IsSeed(last') /\ Len(product) >= 1 /\ ~last'.failed)
        => (last'.status = 200 /\ last'.seeded = Some(FALSE) /\ product' = product) ]_vars

C2_Witness ==
    /\ IsSeed(last) /\ last.seeded = Some(FALSE) /\ ~last.failed
    /\ seeded = {} /\ Len(product) >= 1

(***************************************************************************)
(* C3 as stated: after a successful create_product(P), list_products()     *)
(* with default parameters returns a record whose fields match P and whose *)
(* id is a non-empty text different from every id issued before.           *)
(***************************************************************************)
CreatedIsListed ==
    /\ \E k \in DOMAIN last'.body :
          /\ FieldsMatch(last'.body[k], last.payload[1])
          /\ last'.body[k].id = last.id
    /\ last.id # <<>>
    /\ issued[Len(issued)] = last.id
    /\ \A j \in 1..(Len(issued) - 1) : issued[j] # last.id

C3_Original ==
    [][ ( /\ last.op = "create_product" /\ last.status = 200
          /\ IsDefaultList(last') /\ last'.status = 200 )
        => CreatedIsListed ]_vars

(***************************************************************************)
(* C3 amended: the same, provided the product collection holds at most     *)
(* 100 records (the default limit) after the creation.                     *)
(***************************************************************************)
C3_CreatedIsListed ==
    [][ ( /\ last.op = "create_product" /\ last.status = 200
          /\ IsDefaultList(last') /\ last'.status = 200
          /\ Len(product) <= 100 )
        => CreatedIsListed ]_vars

C3_Witness ==
    /\ IsDefaultList(last) /\ last.status = 200
    /\ Created > 0 /\ Len(product) = 100 /\ Len(last.body) = 100
    /\ last.body[100].id = issued[Len(issued)]
    /\ FieldsMatch(last.body[100], RedCap)

(***************************************************************************)
(* C4: every record list_products returns for a category c has category c  *)
(* exactly, and, when search is given too, also contains the search text   *)
(* in its title or description, up to case.                                *)
(***************************************************************************)
C4_CategoryAndSearch ==
    (IsList(last) /\ last.status = 200 /\ last.category # None)
    => \A k \in DOMAIN last.body :
          /\ last.body[k].category = last.category[1]
          /\ last.search # None =>
                \/ ContainsCI(last.search[1], last.body[k].title)
                \/ ContainsCI(last.search[1], last.body[k].description)

(***************************************************************************)
(* C5: every record list_products returns for a search s contains s in its *)
(* title or its description, up to case.                                   *)
(***************************************************************************)
C5_SearchIsSubstring ==
    (IsList(last) /\ last.status = 200 /\ last.search # None)
    => \A k \in DOMAIN last.body :
          \/ ContainsCI(last.search[1], last.body[k].title)
          \/ ContainsCI(last.search[1], last.body[k].description)

(***************************************************************************)
(* C6: list_products(limit=n) returns exactly n records when at least n    *)
(* records match the filter, all of them when fewer match, and never more  *)
(* than n.                                                                 *)
(***************************************************************************)
C6_Limit ==
    (IsList(last) /\ last.status = 200)
    => /\ Len(last.body) <= last.limit
       /\ MatchCount(last) >= last.limit => Len(last.body) = last.limit
       /\ MatchCount(last) < last.limit => Len(last.body) = MatchCount(last)

C6_Witness ==
    /\ IsList(last) /\ last.status = 200 /\ last.limit = 2
    /\ MatchCount(last) > 2 /\ Len(last.body) = 2

(***************************************************************************)
(* C7: a list_products, create_product, create_order or seed_products      *)
(* request that finds the store handle absent, or one of whose store       *)
(* operations fails, ends with HTTP 500; with the handle absent,           *)
(* list_products and seed_products perform no store operation.            *)
(***************************************************************************)
C7_FailureIs500 ==
    ( /\ last.op \in {"list_products", "create_product", "create_order", "seed_products"}
      /\ (~db \/ last.failed) )
    => /\ last.status = 500
       /\ (~db /\ (IsList(last) \/ IsSeed(last))) => last.storeOps = 0

C7_Witness ==
    /\ db /\ IsSeed(last) /\ last.failed /\ last.status = 500 /\ last.storeOps > 1

(***************************************************************************)
(* C8: test_database always answers with HTTP 200, lists at most 10        *)
(* collection names, and leaves the product and order collections as they  *)
(* were.                                                                   *)
(***************************************************************************)
C8_Diagnostic ==
    [][ last'.op = "test_database"
        => ( /\ last'.status = 200
             /\ Len(last'.collections) <= 10
             /\ product' = product /\ order' = order ) ]_vars

C8_Witness ==
    /\ last.op = "test_database" /\ last.status = 200 /\ ~last.failed
    /\ Len(CollectionNames) > 10 /\ Len(last.collections) = 10

(***************************************************************************)
(* C9 as stated: however concurrently handled seed_products requests       *)
(* interleave on an empty product collection, the collection never holds   *)
(* more than 4 seeded records and at most one request returns seeded=true. *)
(***************************************************************************)
C9_Original ==
    /\ Cardinality(seeded) <= 4
    /\ Cardinality(SaidSeeded) <= 1

(***************************************************************************)
(* C9 amended: the collection never holds more than 4 seeded records per   *)
(* request; a request returns seeded=true only if its own count check saw  *)
(* an empty collection, and then it has inserted its 4 records; a request  *)
(* whose count check saw a record inserts nothing.                         *)
(***************************************************************************)
C9_SeedRace ==
    /\ Cardinality(seeded) <= 4 * Cardinality(Requests)
    /\ \A r \in Requests :
          /\ req[r].inserted <= 4
          /\ r \in SaidSeeded => (req[r].resp.preCount = 0 /\ req[r].inserted = 4)
          /\ (req[r].pc # "idle" /\ req[r].resp.preCount > 0) => req[r].inserted = 0

C9_Witness ==
    /\ Cardinality(SaidSeeded) = 2
    /\ Cardinality(seeded) = 8

(***************************************************************************)
(* C10 as stated: the number of seeded records is 0 or 4, and a            *)
(* seed_products call that ends in HTTP 500 leaves the product collection  *)
(* as it was.                                                              *)
(***************************************************************************)
C10_Original ==
    /\ Cardinality(seeded) \in {0, 4}
    /\ (IsSeed(last) /\ last.status = 500) => Len(product) = last.preCount

(***************************************************************************)
(* C10 amended: the seeded records are the first k of the four fixed       *)
(* records, in order, for some k from 0 to 4; a seed_products call that    *)
(* ends in HTTP 500 has inserted the records before the one whose insert   *)
(* failed, at most 3, and one that returns seeded=true has inserted all 4. *)
(***************************************************************************)
C10_SeedPrefix ==
    /\ \E k \in 0..4 : SeededRecords = SubSeq(docs, 1, k)
    /\ (IsSeed(last) /\ last.status = 500) =>
          /\ Len(product) - last.preCount \in 0..3
          /\ last.failed => Len(product) - last.preCount = last.storeOps - 2
                            \/ (last.storeOps = 1 /\ Len(product) = last.preCount)
    /\ (IsSeed(last) /\ last.seeded = Some(TRUE)) => Len(product) - last.preCount = 4

C10_Witness ==
    /\ IsSeed(last) /\ last.status = 500 /\ last.failed
    /\ Cardinality(seeded) = 2 /\ Len(product) - last.preCount = 2

====
